---- MODULE Spec2Model ----
(***************************************************************************)
(* Model of the MRC file mover: the three programs of the repository       *)
(*   mrc_mover_simple.py  copy2 / verify_copy (MD5) / os.remove, one pass   *)
(*   file_mover.py        shutil.move, endless polling loop                 *)
(*   mrc_mover_gui.py     shutil.move, polling loop with a running flag     *)
(* run against a source and a destination directory that an external       *)
(* producer also writes to.  Every file-system call of a transfer is one   *)
(* step, so that every state between two calls is a state the process can  *)
(* be halted in.                                                           *)
(***************************************************************************)
EXTENDS Integers, Sequences, FiniteSets, TLC

\* ------------------------------------------------------------- bounds
\* File contents are the byte strings numbered 0..MaxContent in the order
\* <<>>, <<0>>, <<1>>, <<0, 0>>, <<0, 1>>, ...
MaxContent == 1
\* How many times Start is clicked in the GUI window.
MaxStarts == 2

\* Byte values of the model's files.
Bytes == {0, 1}
\* Basenames that can exist in the two directories: a stem and an extension.
Name(s, e) == [stem |-> s, ext |-> e]
Names == {Name("a", "mrc"), Name("b", "mrc"), Name("c", "txt")}
\* The three programs.
Variants == {"simple", "basic", "gui"}

RECURSIVE ByteString(_)
ByteString(k) ==
    IF k = 0 THEN <<>>
    ELSE Append(ByteString((k - 1) \div 2), (k - 1) % 2)

Contents == {ByteString(k) : k \in 0..MaxContent}

\* A directory entry: nothing under that name, a regular file, or a
\* subdirectory (what is inside a subdirectory is not followed).
NoFile == [kind |-> "none", data |-> <<>>]
File(d) == [kind |-> "file", data |-> d]
Dir == [kind |-> "dir", data |-> <<>>]
Entries == {NoFile, Dir} \cup {File(d) : d \in Contents}
Exists(e) == e.kind # "none"
\* os.path.isfile
IsFile(e) == e.kind = "file"

\* The return value of one scan cycle: None, or an integer.
PyNone == <<>>
PyInt(k) == <<k>>

VARIABLES
    variant,          \* which program runs
    src, dst,         \* the source and the destination directory: name -> entry
    processed_files,  \* self.processed_files
    running,          \* self.running (GUI program)
    pc,               \* position of the mover
    mrc_files, idx,   \* the listing of this cycle and the loop position
    files_processed,  \* counter of scan_and_process
    initial_size,     \* first size read of is_file_ready
    result,           \* return value of the transfer
    ret,              \* return value of the cycle that just ended
    \* history of the current transfer, of the current cycle and of the run
    outcome,          \* the return path the last transfer took
    src0,             \* entry of the transferred name when the transfer started
                      \* (forgotten once the producer changes that name)
    dst0,             \* entry of that name in the destination directory then
    touched,          \* the producer changed that name since the transfer started
    verified,         \* verify_copy returned True in this transfer
    unlinked,         \* the mover removed the source (os.remove / os.unlink)
    successes,        \* names whose transfer returned True
    cycleKind,        \* how the cycle that just ended went
    attempted,        \* transfers called in the current cycle
    succeeded,        \* transfers of the current cycle that returned True
    \* the GUI window and the mover threads it has started
    is_running,       \* MRCMoverGUI.is_running
    movers            \* the MRCFileMover objects made so far, each with the
                      \* position of its thread; the last one is self.mover

fsVars == <<src, dst>>
loopVars == <<mrc_files, idx, files_processed>>
transferHist == <<src0, dst0, touched, verified, unlinked>>
cycleHist == <<attempted, succeeded>>
guiVars == <<is_running, movers>>

vars == <<variant, fsVars, processed_files, running, pc, loopVars, initial_size,
          result, ret, outcome, transferHist, successes, cycleKind, cycleHist,
          guiVars>>

\* ------------------------------------------------------------ helpers

\* os.path.getsize / Path.stat().st_size of an existing entry; a directory
\* has the size of its own block, whatever it holds.
Size(e) == IF e.kind = "dir" THEN 4096 ELSE Len(e.data)

\* hashlib.md5 fed chunk by chunk: the digest is a fold over the bytes read.
HashUpdate(h, b) == h * (Cardinality(Bytes) + 1) + b + 1

RECURSIVE HashFrom(_, _)
HashFrom(h, data) ==
    IF data = <<>> THEN h ELSE HashFrom(HashUpdate(h, Head(data)), Tail(data))

calculate_file_hash(e) == HashFrom(0, e.data)

\* verify_copy: both files are hashed; any read error gives False.
verify_copy_NoCompare(s, d, ioOk) == ioOk /\ IsFile(s) /\ IsFile(d)
verify_copy(s, d, ioOk) ==
    /\ ioOk /\ IsFile(s) /\ IsFile(d)
    /\ calculate_file_hash(s) = calculate_file_hash(d)

\* The extension filter: f.endswith('.mrc') / glob("*.mrc").
IsMrc(n) == n.ext = "mrc"

RECURSIVE SetToSeq(_)
SetToSeq(S) ==
    IF S = {} THEN <<>>
    ELSE LET x == CHOOSE y \in S : TRUE IN <<x>> \o SetToSeq(S \ {x})

\* The listing of the source directory, in a fixed listing order: the simple
\* program keeps the regular files among os.listdir's names, glob("*.mrc")
\* gives every entry whose name matches.
ListCandidates(v, dir) ==
    SetToSeq({n \in Names : /\ IsMrc(n)
                            /\ IF v = "simple" THEN IsFile(dir[n])
                               ELSE Exists(dir[n])})

\* What a cycle returns: the counter (simple) or None (basic, gui).
CycleResult(v, n) == IF v = "simple" THEN PyInt(n) ELSE PyNone
\* What the except branch of the scan returns.
ScanErrorResult(v) == IF v = "simple" THEN PyInt(0) ELSE PyNone

InTransfer == pc \in {"stat1", "stat2", "copy", "verify", "rm_src", "rm_dst",
                      "move", "ret"}
\* The name under transfer (file_path / source_path), while InTransfer.
Cur == mrc_files[idx]
\* The name the loop has just finished with, right after Record.
Last == mrc_files[idx - 1]

\* ------------------------------------------------------------ initial state

\* The state after construction, over the source directory s.
InitOver(s) ==
    /\ variant \in Variants
    /\ src = s
    /\ dst \in {d \in [Names -> {NoFile, File(<<>>)}] :
                    \A n \in Names : ~IsMrc(n) => d[n] = NoFile}
    /\ processed_files = {}
    /\ running = TRUE
    /\ pc = "idle"
    /\ mrc_files = <<>>
    /\ idx = 1
    /\ files_processed = 0
    /\ initial_size = 0
    /\ result = FALSE
    /\ ret = PyNone
    /\ outcome = "none"
    /\ src0 = NoFile
    /\ dst0 = NoFile
    /\ touched = FALSE
    /\ verified = FALSE
    /\ unlinked = FALSE
    /\ successes = {}
    /\ cycleKind = "none"
    /\ attempted = 0
    /\ succeeded = 0
    /\ is_running = FALSE
    /\ movers = <<>>

\* The mover starts on a source directory the producer has yet to fill.
Init == InitOver([n \in Names |-> NoFile])

\* ------------------------------------------------------------ file-system calls

RECURSIVE StrictPrefixes(_)
StrictPrefixes(data) ==
    IF data = <<>> THEN {}
    ELSE LET p == SubSeq(data, 1, Len(data) - 1) IN {p} \cup StrictPrefixes(p)

\* shutil.copy2(source, dest), and the copy inside shutil.move: what it can
\* leave at dest and whether it raised.  It raises when the source cannot be
\* opened, when dest cannot be opened (dest unchanged) and when a write fails
\* part-way (dest holds a prefix); a copy that did not raise has written the
\* source bytes or, on a faulty medium, other bytes.  When dest is a
\* directory the copy goes inside it.  A source that is a directory makes
\* copy2 raise; shutil.move copies it with copytree, which raises when dest
\* exists and can stop with part of the tree written.
CopyResults(v, s, d) ==
    IF ~Exists(s) THEN {[ok |-> FALSE, dst |-> d]}
    ELSE IF d.kind = "dir" THEN {[ok |-> FALSE, dst |-> d], [ok |-> TRUE, dst |-> d]}
    ELSE IF s.kind = "dir"
    THEN IF v = "simple" \/ Exists(d) THEN {[ok |-> FALSE, dst |-> d]}
         ELSE {[ok |-> FALSE, dst |-> d], [ok |-> FALSE, dst |-> Dir],
               [ok |-> TRUE, dst |-> Dir]}
    ELSE {[ok |-> FALSE, dst |-> d]}
         \cup {[ok |-> FALSE, dst |-> File(p)] : p \in StrictPrefixes(s.data)}
         \cup {[ok |-> TRUE, dst |-> File(c)] : c \in Contents}

\* The end of a transfer: the value it returns and the path it took.
Return(o, res) ==
    /\ pc' = "ret"
    /\ outcome' = o
    /\ result' = res
    /\ successes' = IF res THEN successes \cup {mrc_files[idx]} ELSE successes
    /\ succeeded' = IF res THEN succeeded + 1 ELSE succeeded

\* ------------------------------------------------------------ the scan cycle

\* The test of self.running at the head of the GUI program's run loop and
\* before each listed file; the other two programs have no such flag.
Stopped_Never(v, r) == FALSE
Stopped(v, r) == v = "gui" /\ ~r

\* The listing of the source directory raises (directory missing, permission
\* denied): the except branch of the scan logs and returns.
ScanFails ==
    /\ pc = "idle"
    /\ ~Stopped(variant, running)
    /\ pc' = "end"
    /\ ret' = ScanErrorResult(variant)
    /\ cycleKind' = "listfail"
    /\ UNCHANGED <<guiVars, variant, fsVars, processed_files, running, loopVars,
                   initial_size, result, outcome, transferHist,
                   successes, cycleHist>>

\* The listing succeeds.  file_mover.py and the GUI program return at once on
\* an empty listing; the simple program enters its loop with the counter at 0.
ScanLists ==
    /\ pc = "idle"
    /\ ~Stopped(variant, running)
    /\ LET found == ListCandidates(variant, src) IN
        IF variant # "simple" /\ found = <<>>
        THEN /\ pc' = "end"
             /\ ret' = PyNone
             /\ cycleKind' = "empty"
             /\ UNCHANGED loopVars
        ELSE /\ pc' = "loop"
             /\ mrc_files' = found
             /\ idx' = 1
             /\ files_processed' = 0
             /\ UNCHANGED <<ret, cycleKind>>
    /\ UNCHANGED <<guiVars, variant, fsVars, processed_files, running, initial_size,
                   result, outcome, transferHist, successes, cycleHist>>

\* The loop is over: every listed name was looked at, or the GUI was stopped.
LoopExit ==
    /\ pc = "loop"
    /\ idx > Len(mrc_files) \/ Stopped(variant, running)
    /\ pc' = "end"
    /\ ret' = CycleResult(variant, files_processed)
    /\ cycleKind' = IF mrc_files = <<>> THEN "empty" ELSE "nonempty"
    /\ mrc_files' = <<>>
    /\ idx' = 1
    /\ files_processed' = 0
    /\ outcome' = "none"
    /\ UNCHANGED <<guiVars, variant, fsVars, processed_files, running, initial_size,
                   result, transferHist, successes, cycleHist>>

\* The ledger test of the loop body.
ShouldAttempt_NoLedger(name) == TRUE
ShouldAttempt(name) == name \notin processed_files

LoopSkip ==
    /\ pc = "loop"
    /\ idx <= Len(mrc_files)
    /\ ~Stopped(variant, running)
    /\ ~ShouldAttempt(mrc_files[idx])
    /\ idx' = idx + 1
    /\ outcome' = "skipped"
    /\ UNCHANGED <<guiVars, variant, fsVars, processed_files, running, pc, mrc_files,
                   files_processed, initial_size, result, ret, transferHist,
                   successes, succeeded, cycleKind, attempted>>

\* safe_copy_and_delete / move_file is called on the next listed name.
LoopAttempt ==
    /\ pc = "loop"
    /\ idx <= Len(mrc_files)
    /\ ~Stopped(variant, running)
    /\ ShouldAttempt(mrc_files[idx])
    /\ pc' = "stat1"
    /\ outcome' = "none"
    /\ src0' = src[mrc_files[idx]]
    /\ dst0' = dst[mrc_files[idx]]
    /\ attempted' = attempted + 1
    /\ UNCHANGED <<guiVars, variant, fsVars, processed_files, running, loopVars,
                   initial_size, result, ret, touched, verified,
                   unlinked, successes, succeeded, cycleKind>>

\* ------------------------------------------------------------ is_file_ready

\* A size read returns a size when the entry is there and the call goes
\* through; it raises otherwise.
ReadOk_Missing(ioOk, e) == ioOk
ReadOk(ioOk, e) == ioOk /\ Exists(e)

\* The first size read; a failed read makes is_file_ready return False.
Stat1 ==
    /\ pc = "stat1"
    /\ \E ioOk \in BOOLEAN :
        IF ReadOk(ioOk, src[Cur])
        THEN /\ initial_size' = Size(src[Cur])
             /\ pc' = "stat2"
             /\ UNCHANGED <<outcome, result, successes, succeeded>>
        ELSE /\ Return("NotReady", FALSE)
             /\ UNCHANGED initial_size
    /\ UNCHANGED <<guiVars, variant, fsVars, processed_files, running, loopVars, ret,
                   transferHist, cycleKind, attempted>>

\* is_file_ready's verdict from the two sizes.
SizesAgree_Always(a, b) == TRUE
SizesAgree(a, b) == a = b

\* The second size read, one second later.
Stat2 ==
    /\ pc = "stat2"
    /\ \E ioOk \in BOOLEAN :
        IF ReadOk(ioOk, src[Cur]) /\ SizesAgree(initial_size, Size(src[Cur]))
        THEN /\ pc' = IF variant = "simple" THEN "copy" ELSE "move"
             /\ UNCHANGED <<outcome, result, successes, succeeded>>
        ELSE Return("NotReady", FALSE)
    /\ initial_size' = 0
    /\ UNCHANGED <<guiVars, variant, fsVars, processed_files, running, loopVars, ret,
                   transferHist, cycleKind, attempted>>

\* ------------------------------------------------------------ the transfer

\* os.rename(src, real_dst) as shutil.move calls it: a file replaces a file,
\* a directory cannot replace a file, and when dest is a directory the entry
\* goes inside it.
RenameAllowed(s, d) == Exists(s) /\ ~(s.kind = "dir" /\ d.kind = "file")
RenameResult(s, d) == IF d.kind = "dir" THEN d ELSE s

\* shutil.move first tries os.rename, which moves the entry in one step when
\* source and destination are on one file system; when rename raises OSError
\* it falls back to a copy (copy2, or copytree for a directory) followed by
\* the removal of the source (os.unlink, or rmtree).
Rename ==
    /\ pc = "move"
    /\ \E renameOk \in BOOLEAN :
        IF renameOk /\ RenameAllowed(src[Cur], dst[Cur])
        THEN /\ dst' = [dst EXCEPT ![Cur] = RenameResult(src[Cur], dst[Cur])]
             /\ src' = [src EXCEPT ![Cur] = NoFile]
             /\ Return("Success", TRUE)
        ELSE /\ pc' = "copy"
             /\ UNCHANGED <<fsVars, outcome, result, successes, succeeded>>
    /\ UNCHANGED <<guiVars, variant, processed_files, running, loopVars, initial_size,
                   ret, transferHist, cycleKind, attempted>>

\* Where a copy that did not raise continues: verify_copy in the simple
\* program, os.unlink inside shutil.move in the other two.
AfterCopy(v) == IF v = "simple" THEN "verify" ELSE "rm_src"

\* shutil.copy2 to destination_dir/basename.
Copy ==
    /\ pc = "copy"
    /\ \E r \in CopyResults(variant, src[Cur], dst[Cur]) :
        /\ dst' = [dst EXCEPT ![Cur] = r.dst]
        /\ IF r.ok
           THEN /\ pc' = AfterCopy(variant)
                /\ UNCHANGED <<outcome, result, successes, succeeded>>
           ELSE Return("CopyFailed", FALSE)
    /\ UNCHANGED <<guiVars, variant, src, processed_files, running, loopVars,
                   initial_size, ret, transferHist, cycleKind, attempted>>

\* verify_copy(source_path, dest_path) and the branch taken on its value.
Verify ==
    /\ pc = "verify"
    /\ \E ioOk \in BOOLEAN :
        IF verify_copy(src[Cur], dst[Cur], ioOk)
        THEN /\ verified' = TRUE
             /\ pc' = "rm_src"
        ELSE /\ pc' = "rm_dst"
             /\ UNCHANGED verified
    /\ UNCHANGED <<guiVars, variant, fsVars, processed_files, running, loopVars,
                   initial_size, result, ret, outcome, src0, dst0,
                   touched, unlinked, successes, succeeded, cycleKind,
                   attempted>>

\* What the transfer returns when deleting the source raised.
DeleteErrorResult_Success == TRUE
DeleteErrorResult == FALSE

\* os.remove takes away a regular file and raises on a directory; the
\* removal inside shutil.move is os.unlink for a file and rmtree for a
\* directory.
Removable_Always(v, e) == TRUE
Removable(v, e) == IF v = "simple" THEN IsFile(e) ELSE Exists(e)

\* os.remove(source_path) after a verified copy / os.unlink(src) in shutil.move.
RemoveSource ==
    /\ pc = "rm_src"
    /\ \E ioOk \in BOOLEAN :
        IF ioOk /\ Removable(variant, src[Cur])
        THEN /\ src' = [src EXCEPT ![Cur] = NoFile]
             /\ unlinked' = TRUE
             /\ Return("Success", TRUE)
        ELSE /\ Return("DeleteFailed", DeleteErrorResult)
             /\ UNCHANGED <<src, unlinked>>
    /\ UNCHANGED <<guiVars, variant, dst, processed_files, running, loopVars,
                   initial_size, ret, src0, dst0, touched, verified, cycleKind,
                   attempted>>

\* The file the failed-verification branch removes.
RollbackTarget_Source == "src"
RollbackTarget == "dst"

\* What the transfer returns when verification failed.
VerifyFailedResult_Success == TRUE
VerifyFailedResult == FALSE

\* Verification failed: the copy at the destination is removed if it exists,
\* and the transfer returns False.  A remove that raises is caught by the
\* outer handler, which returns False as well; the copy then stays.
RemoveDest ==
    /\ pc = "rm_dst"
    /\ \/ /\ IsFile(dst[Cur])
          /\ IF RollbackTarget = "dst"
             THEN /\ dst' = [dst EXCEPT ![Cur] = NoFile]
                  /\ UNCHANGED src
             ELSE /\ src' = [src EXCEPT ![Cur] = NoFile]
                  /\ UNCHANGED dst
          /\ Return("VerifyFailed", VerifyFailedResult)
       \/ /\ ~Exists(dst[Cur])
          /\ UNCHANGED fsVars
          /\ Return("VerifyFailed", VerifyFailedResult)
       \/ /\ Exists(dst[Cur])
          /\ UNCHANGED fsVars
          /\ Return("RollbackFailed", FALSE)
    /\ UNCHANGED <<guiVars, variant, processed_files, running, loopVars, initial_size,
                   ret, transferHist, cycleKind, attempted>>

\* Whether the loop records the name, from the value the transfer returned.
ShouldRecord_Always(res) == TRUE
ShouldRecord(res) == res

\* The for loop goes on with the next listed name whatever the transfer
\* returned (i is the loop position, n the length of the listing).
NextIndex_StopOnFailure(i, n, res) == IF res THEN i + 1 ELSE n + 1
NextIndex(i, n, res) == i + 1

\* Back in the loop: a True result is recorded in the ledger (and counted).
Record ==
    /\ pc = "ret"
    /\ IF ShouldRecord(result)
       THEN /\ processed_files' = processed_files \cup {Cur}
            /\ files_processed' = IF variant = "simple" THEN files_processed + 1
                                  ELSE files_processed
       ELSE UNCHANGED <<processed_files, files_processed>>
    /\ idx' = NextIndex(idx, Len(mrc_files), result)
    /\ pc' = "loop"
    /\ result' = FALSE
    /\ src0' = NoFile
    /\ dst0' = NoFile
    /\ touched' = FALSE
    /\ verified' = FALSE
    /\ unlinked' = FALSE
    /\ UNCHANGED <<guiVars, variant, fsVars, running, mrc_files, initial_size, ret,
                   outcome, successes, succeeded, cycleKind, attempted>>

\* run(): the simple program exits after its one cycle; the other two sleep
\* and come back to the head of their loop.
AfterCycle_Exit(v) == "done"
AfterCycle(v) == IF v = "simple" THEN "done" ELSE "idle"

EndCycle ==
    /\ pc = "end"
    /\ pc' = AfterCycle(variant)
    /\ ret' = PyNone
    /\ cycleKind' = "none"
    /\ attempted' = 0
    /\ succeeded' = 0
    /\ UNCHANGED <<guiVars, variant, fsVars, processed_files, running, loopVars,
                   initial_size, result, outcome, transferHist,
                   successes>>

\* run() of the GUI program: while self.running fails and the thread ends.
RunExit ==
    /\ pc = "idle"
    /\ Stopped(variant, running)
    /\ pc' = "done"
    /\ UNCHANGED <<guiVars, variant, fsVars, processed_files, running, loopVars,
                   initial_size, result, ret, outcome, transferHist, successes,
                   succeeded, cycleKind, attempted>>

\* stop() of the GUI program, called from the GUI thread at any time.
Stop ==
    /\ variant = "gui"
    /\ running
    /\ pc # "done"
    /\ running' = FALSE
    /\ UNCHANGED <<guiVars, variant, fsVars, processed_files, pc, loopVars, initial_size,
                   result, ret, outcome, transferHist, successes, succeeded,
                   cycleKind, attempted>>

\* ------------------------------------------------------------ the producer

\* The external process that fills the source directory: it creates a file
\* or a subdirectory, rewrites or extends a file, or removes an entry.
EnvChange(n, e) ==
    /\ pc # "done"
    /\ e # src[n]
    /\ src' = [src EXCEPT ![n] = e]
    /\ touched' = (touched \/ (InTransfer /\ n = Cur))
    /\ src0' = IF InTransfer /\ n = Cur THEN NoFile ELSE src0
    /\ UNCHANGED <<guiVars, variant, dst, processed_files, running, pc, loopVars,
                   initial_size, result, ret, outcome, dst0, verified,
                   unlinked, successes, succeeded, cycleKind, attempted>>

\* What the producer writes under a name; files the mover does not look for
\* are only ever written empty, and subdirectories are made under the names
\* it does look for.
Written(n) == IF IsMrc(n) THEN Contents ELSE {<<>>}

EnvCreate == \E n \in Names, c \in Contents :
    ~Exists(src[n]) /\ c \in Written(n) /\ EnvChange(n, File(c))
EnvMkdir == \E n \in Names : IsMrc(n) /\ ~Exists(src[n]) /\ EnvChange(n, Dir)
EnvWrite == \E n \in Names, c \in Contents :
    IsFile(src[n]) /\ c \in Written(n) /\ EnvChange(n, File(c))
EnvDelete == \E n \in Names : Exists(src[n]) /\ EnvChange(n, NoFile)

\* ------------------------------------------------------------ specification

Next ==
    \/ ScanFails
    \/ ScanLists
    \/ LoopExit
    \/ LoopSkip
    \/ LoopAttempt
    \/ Stat1
    \/ Stat2
    \/ Rename
    \/ Copy
    \/ Verify
    \/ RemoveSource
    \/ RemoveDest
    \/ Record
    \/ EndCycle
    \/ RunExit
    \/ Stop
    \/ EnvCreate
    \/ EnvMkdir
    \/ EnvWrite
    \/ EnvDelete

Spec == Init /\ [][Next]_vars

\* ------------------------------------------------------------ the mover left alone

\* main() of the simple program run once more by its host: a new process, and
\* with it a new, empty ledger.
Restart ==
    /\ variant = "simple"
    /\ pc = "done"
    /\ pc' = "idle"
    /\ processed_files' = {}
    /\ successes' = {}
    /\ UNCHANGED <<guiVars, variant, fsVars, running, loopVars, initial_size, result,
                   ret, outcome, transferHist, cycleKind, cycleHist>>

\* The source directory holds files that are complete: the producer is done
\* and nobody stops the mover.
LiveInit ==
    \E s \in [Names -> {NoFile} \cup {File(c) : c \in Contents}] :
        /\ \A n \in Names : ~IsMrc(n) => s[n] = File(<<>>)
        /\ InitOver(s)

LiveNext ==
    \/ ScanFails
    \/ ScanLists
    \/ LoopExit
    \/ LoopAttempt
    \/ Stat1
    \/ Stat2
    \/ Rename
    \/ Copy
    \/ Verify
    \/ RemoveSource
    \/ RemoveDest
    \/ Record
    \/ EndCycle
    \/ Restart

\* The host keeps the mover running, and no file-system call fails for
\* ever: a call that is made again and again eventually goes through (the
\* copy with the bytes of the source).
LiveFairness ==
    /\ WF_vars(LiveNext)
    /\ SF_vars(ScanLists)
    /\ SF_vars(Stat1 /\ pc' = "stat2")
    /\ SF_vars(Stat2 /\ pc' # "ret")
    /\ SF_vars(Rename /\ pc' = "ret")
    /\ SF_vars(Copy /\ pc' # "ret" /\ dst'[Cur] = src[Cur])
    /\ SF_vars(Verify /\ pc' = "rm_src")
    /\ SF_vars(RemoveSource /\ result')

LiveSpec == LiveInit /\ [][LiveNext]_vars /\ LiveFairness

\* ------------------------------------------------------------ the GUI window

\* The state of the one mover of the specifications above, left alone here.
moverVars == <<variant, processed_files, running, pc, loopVars, initial_size,
               result, ret, outcome, transferHist, successes, cycleKind,
               cycleHist>>

\* MRCFileMover(...): a new mover with its own ledger, running set, and its
\* thread about to enter run().
NewMover == [running |-> TRUE, pc |-> "check", todo |-> <<>>, processed |-> {}]

\* A click on the Start/Stop button.  Start makes a new mover and starts a
\* new daemon thread on its run(); Stop calls stop() on self.mover, the
\* mover of the last Start, and waits for nothing.
toggle_mover ==
    /\ IF ~is_running
       THEN /\ Len(movers) < MaxStarts
            /\ is_running' = TRUE
            /\ movers' = Append(movers, NewMover)
       ELSE /\ is_running' = FALSE
            /\ movers' = [movers EXCEPT ![Len(movers)].running = FALSE]
    /\ UNCHANGED <<fsVars, moverVars>>

\* run(): the test of self.running at the head of the loop.
GuiRun ==
    \E w \in 1..Len(movers) :
        /\ movers[w].pc = "check"
        /\ movers' = [movers EXCEPT ![w].pc =
                        IF movers[w].running THEN "list" ELSE "done"]
        /\ UNCHANGED <<is_running, fsVars, moverVars>>

\* scan_and_move: the listing; an empty or failed listing ends the cycle.
GuiList ==
    \E w \in 1..Len(movers), ok \in BOOLEAN :
        /\ movers[w].pc = "list"
        /\ LET found == IF ok THEN ListCandidates("gui", src) ELSE <<>> IN
            movers' = [movers EXCEPT ![w].todo = found,
                                     ![w].pc = IF found = <<>> THEN "sleep"
                                               ELSE "loop"]
        /\ UNCHANGED <<is_running, fsVars, moverVars>>

\* scan_and_move: the head of the for loop, the test of self.running and the
\* ledger test; move_file is called on the next listed name.
GuiLoop ==
    \E w \in 1..Len(movers) :
        /\ movers[w].pc = "loop"
        /\ movers' =
            IF movers[w].todo = <<>> \/ ~movers[w].running
            THEN [movers EXCEPT ![w].todo = <<>>, ![w].pc = "sleep"]
            ELSE IF Head(movers[w].todo) \in movers[w].processed
            THEN [movers EXCEPT ![w].todo = Tail(movers[w].todo)]
            ELSE [movers EXCEPT ![w].pc = "transfer"]
        /\ UNCHANGED <<is_running, fsVars, moverVars>>

\* move_file comes to its end: the entry is moved and the name recorded, or
\* the call failed (not ready, entry gone, move raised) and nothing changed.
GuiMoveFile ==
    \E w \in 1..Len(movers), ok \in BOOLEAN :
        LET n == Head(movers[w].todo) IN
        /\ movers[w].pc = "transfer"
        /\ IF ok /\ RenameAllowed(src[n], dst[n])
           THEN /\ dst' = [dst EXCEPT ![n] = RenameResult(src[n], dst[n])]
                /\ src' = [src EXCEPT ![n] = NoFile]
                /\ movers' = [movers EXCEPT
                                ![w].processed = movers[w].processed \cup {n},
                                ![w].todo = Tail(movers[w].todo),
                                ![w].pc = "loop"]
           ELSE /\ movers' = [movers EXCEPT ![w].todo = Tail(movers[w].todo),
                                            ![w].pc = "loop"]
                /\ UNCHANGED fsVars
        /\ UNCHANGED <<is_running, moverVars>>

\* run(): time.sleep(300) is over.
GuiSleep ==
    \E w \in 1..Len(movers) :
        /\ movers[w].pc = "sleep"
        /\ movers' = [movers EXCEPT ![w].pc = "check"]
        /\ UNCHANGED <<is_running, fsVars, moverVars>>

\* The window opens on a source directory that holds files.
GuiInit ==
    \E s \in [Names -> {NoFile, File(<<>>)}] :
        /\ InitOver(s)
        /\ variant = "gui"
        /\ dst = [n \in Names |-> NoFile]

GuiNext ==
    \/ toggle_mover
    \/ GuiRun
    \/ GuiList
    \/ GuiLoop
    \/ GuiMoveFile
    \/ GuiSleep

GuiSpec == GuiInit /\ [][GuiNext]_vars

\* ------------------------------------------------------------ properties

\* A step of the mover (the producer and stop() leave pc and idx alone).
MoverStep == pc' # pc \/ idx' # idx

FailureOutcomes == {"NotReady", "CopyFailed", "VerifyFailed", "RollbackFailed",
                    "DeleteFailed"}

\* C1: in every transfer the source is removed only after verify_copy has
\* compared source and destination copy and found them equal in that same
\* transfer; so in no state of a transfer the producer kept out of is the
\* destination file present and different from the source content while the
\* source is already gone.
C1_DeleteOnlyAfterVerify ==
    /\ unlinked => verified
    /\ ~(/\ InTransfer
         /\ ~touched
         /\ Exists(src0)
         /\ ~Exists(src[Cur])
         /\ Exists(dst[Cur])
         /\ dst[Cur] # src0)

\* C2: whatever step a transfer is halted at, the content the file had when
\* the transfer started is still complete in the source directory or a
\* complete copy of it is in the destination directory (the producer not
\* having changed the file meanwhile).
C2_NoDataLoss ==
    (InTransfer /\ ~touched /\ Exists(src0))
        => (src[Cur] = src0 \/ dst[Cur] = src0)

\* C3: a transfer whose copy step failed or whose verification step failed
\* returns with the source file present and holding the content it had when
\* the transfer started.
C3_SourceKeptOnFailure ==
    (/\ pc = "ret"
     /\ outcome \in {"CopyFailed", "VerifyFailed", "RollbackFailed"}
     /\ ~touched)
        => (Exists(src[Cur]) /\ src[Cur] = src0)

C3_Witness ==
    /\ pc = "ret"
    /\ outcome = "VerifyFailed"
    /\ ~touched
    /\ src[Cur] = File(<<0>>)
    /\ ~Exists(dst[Cur])

\* C4: whenever the loop is not between a transfer's return and its
\* recording, the ledger holds exactly the names whose transfer returned
\* success; right after a recording, a name whose transfer failed is not in
\* the ledger and a name whose transfer succeeded is.
C4_LedgerIffSuccess ==
    /\ pc # "ret" => processed_files = successes
    /\ (pc = "loop" /\ outcome \in FailureOutcomes) => Last \notin processed_files
    /\ (pc = "loop" /\ outcome = "Success") => Last \in processed_files

C4_Witness ==
    /\ pc = "loop"
    /\ outcome = "NotReady"
    /\ processed_files # {}
    /\ Last \notin processed_files

\* C5: the transfer is never invoked on a name that is in the ledger, and no
\* step of the mover changes the source entry of a name that is in the ledger.
C5_NoRetransfer ==
    [][/\ (pc = "loop" /\ pc' = "stat1") => mrc_files[idx] \notin processed_files
       /\ \A n \in processed_files : MoverStep => src'[n] = src[n]]_vars

\* A recorded name is in the source again and the loop has just passed it.
C5_Witness ==
    /\ pc = "loop"
    /\ outcome = "skipped"
    /\ Last \in processed_files
    /\ Exists(src[Last])

\* C6: when safe_copy_and_delete returns success, the destination file under
\* the basename holds the content the source had when the transfer started
\* and the source path is gone (the producer not having changed the file
\* meanwhile).
C6_RoundTrip ==
    (variant = "simple" /\ pc = "ret" /\ result /\ ~touched)
        => (Exists(src0) /\ dst[Cur] = src0 /\ ~Exists(src[Cur]))

C6_Witness ==
    /\ variant = "simple"
    /\ pc = "ret"
    /\ result
    /\ ~touched
    /\ dst[Cur] = File(<<0>>)

\* C7: when a size read fails or the second size differs from the first, the
\* transfer returns at once with the not-ready outcome (False), and from its
\* call to the loop's next step neither directory nor the ledger is changed
\* by the mover.
C7_NotReadyChangesNothing ==
    [][/\ (pc \in {"stat1", "stat2"} /\ MoverStep)
            => UNCHANGED <<src, dst, processed_files>>
       /\ (pc = "stat1" /\ MoverStep /\ ~Exists(src[Cur])) => pc' = "ret"
       /\ (/\ pc = "stat2"
           /\ MoverStep
           /\ ~Exists(src[Cur]) \/ Size(src[Cur]) # initial_size) => pc' = "ret"
       /\ (pc \in {"stat1", "stat2"} /\ pc' = "ret")
            => (outcome' = "NotReady" /\ result' = FALSE)
       /\ (pc = "ret" /\ outcome = "NotReady" /\ MoverStep)
            => UNCHANGED <<src, dst, processed_files>>]_vars

\* The second size read differed from the first and the loop has moved on.
C7_Witness ==
    /\ pc = "loop"
    /\ outcome = "NotReady"
    /\ Exists(src[Last])
    /\ Exists(dst[Last])
    /\ dst[Last] # src[Last]

\* C8 as stated: when verification fails the destination copy is gone when
\* the transfer returns, the source is intact and the result is a failure.
C8_RollbackAlwaysRemoves ==
    (pc = "ret" /\ outcome \in {"VerifyFailed", "RollbackFailed"})
        => /\ ~Exists(dst[Cur])
           /\ result = FALSE
           /\ ~touched => (Exists(src[Cur]) /\ src[Cur] = src0)

\* C8 amended: when verification fails the transfer returns a failure with
\* the source intact and the name is not recorded; the destination copy is
\* gone unless removing it raised, in which case it stays.
C8_RollbackBestEffort ==
    /\ (pc = "ret" /\ outcome \in {"VerifyFailed", "RollbackFailed"})
        => /\ result = FALSE
           /\ outcome = "VerifyFailed" => ~Exists(dst[Cur])
           /\ ~touched => (Exists(src[Cur]) /\ src[Cur] = src0)
    /\ (pc = "loop" /\ outcome \in {"VerifyFailed", "RollbackFailed"})
        => Last \notin processed_files

C8_Witness ==
    /\ pc = "loop"
    /\ outcome = "VerifyFailed"
    /\ Exists(src[Last])
    /\ ~Exists(dst[Last])
    /\ Last \notin processed_files

\* C9: when the copy (and, in the simple program, the verification) succeeded
\* and removing the source raised, the transfer returns a failure, the name is
\* not recorded and the file is still in the source directory.
C9_DeleteFailureIsFailure ==
    /\ (pc = "ret" /\ outcome = "DeleteFailed")
        => /\ result = FALSE
           /\ ~touched => (Exists(src[Cur]) /\ src[Cur] = src0)
    /\ (pc = "loop" /\ outcome = "DeleteFailed") => Last \notin processed_files

C9_Witness ==
    /\ variant = "simple"
    /\ pc = "loop"
    /\ outcome = "DeleteFailed"
    /\ Exists(src[Last])
    /\ dst[Last] = src[Last]
    /\ Last \notin processed_files

\* C10: a cycle whose listing failed ends without any transfer, and the value
\* it returns is not the value a cycle that listed no candidate returns.
C10_ListFailureDistinct ==
    /\ (pc = "end" /\ cycleKind = "listfail")
        => (outcome = "none" /\ mrc_files = <<>>)
    /\ (pc = "end" /\ cycleKind = "empty") => ret # ScanErrorResult(variant)

\* C11: a transfer that returns a failure, of whatever kind, is followed by
\* the loop's next step with the listing unchanged and the position advanced
\* by one; the cycle ends only from the listing itself or from the loop once
\* every listed name was looked at (or the GUI was stopped); and the loop's
\* step on a listed name that is not in the ledger is to call the transfer
\* on it.
C11_FailureContinues ==
    [][/\ (pc = "ret" /\ ~result /\ MoverStep)
            => (pc' = "loop" /\ idx' = idx + 1 /\ mrc_files' = mrc_files)
       /\ (pc \notin {"idle", "end"} /\ pc' = "end")
            => /\ pc = "loop"
               /\ idx > Len(mrc_files) \/ (variant = "gui" /\ ~running)
       /\ (/\ pc = "loop"
           /\ MoverStep
           /\ idx <= Len(mrc_files)
           /\ variant = "gui" => running
           /\ mrc_files[idx] \notin processed_files)
            => (pc' = "stat1" /\ idx' = idx /\ mrc_files' = mrc_files)]_vars

\* The first listed name was attempted and failed (the ledger of the one
\* cycle is still empty), and the transfer now runs on the second.
C11_Witness ==
    /\ variant = "simple"
    /\ pc = "stat1"
    /\ idx = 2
    /\ processed_files = {}
    /\ Exists(src[mrc_files[1]])

\* C12: the names a cycle lists are regular files of the source directory
\* whose name ends with .mrc; no step of the mover changes, in either
\* directory, the entry of a name with another extension; and no step of the
\* mover changes a source entry that is a subdirectory or makes a
\* subdirectory appear in the destination directory.
C12_OnlyRegularMrcFiles ==
    [][/\ (pc = "idle" /\ pc' = "loop")
            => \A i \in 1..Len(mrc_files') :
                    IsMrc(mrc_files'[i]) /\ IsFile(src[mrc_files'[i]])
       /\ \A n \in Names :
            /\ (MoverStep /\ ~IsMrc(n)) => (src'[n] = src[n] /\ dst'[n] = dst[n])
            /\ (MoverStep /\ src[n].kind = "dir") => src'[n] = src[n]
            /\ (MoverStep /\ dst'[n].kind = "dir") => dst[n].kind = "dir"]_vars

\* C13: the value a completed cycle returns reports the number of candidates
\* the transfer was called on in that cycle and the number of those calls
\* that returned success, as a pair of two numbers.
C13_SummaryReportsBoth ==
    (pc = "end" /\ cycleKind \in {"empty", "nonempty"})
        => ret = <<attempted, succeeded>>

\* C14: with the producer done and the mover kept running, a transfer that
\* returned a failure has left the file in the source directory and the name
\* out of the ledger, and every complete .mrc file waiting in the source
\* directory is eventually moved: gone from the source directory, present in
\* the destination directory, its name in the ledger.
C14_EventuallyMoved ==
    /\ [](pc = "loop" /\ outcome \in FailureOutcomes
            => (Exists(src[Last]) /\ Last \notin processed_files))
    /\ \A n \in {k \in Names : IsMrc(k)} :
        IsFile(src[n])
            ~> (~Exists(src[n]) /\ Exists(dst[n]) /\ n \in processed_files)

\* A later cycle of a polling program moves the one file an earlier cycle,
\* which moved the other, had failed on.
C14_Witness ==
    /\ variant # "simple"
    /\ pc = "ret"
    /\ result
    /\ Len(mrc_files) = 1
    /\ processed_files # {}
    /\ Cur \notin processed_files

\* C15 as stated: a transfer during which the producer deleted or changed the
\* file returns a failure.
C15_RaceAlwaysFails ==
    [][(InTransfer /\ pc # "ret" /\ touched /\ pc' = "ret") => ~result']_vars

\* C15 amended: every step a transfer takes while the producer has the file
\* deleted leads to a failure return (at once, or through the copy that
\* shutil.move falls back to, or through the removal of the copy), a changed
\* size at the second read and changed bytes at the verification do so too,
\* none of these steps changes the source directory or the ledger, and after
\* a failure return the loop goes on to the next listed name with nothing
\* recorded.  A change the checks do not see leaves the transfer to succeed.
C15_RaceTolerated ==
    [][/\ (InTransfer /\ pc # "ret" /\ MoverStep /\ ~Exists(src[Cur]))
            => /\ \/ pc' = "ret" /\ ~result'
                  \/ pc = "move" /\ pc' = "copy"
                  \/ pc = "verify" /\ pc' = "rm_dst"
               /\ UNCHANGED <<src, processed_files>>
       /\ (pc = "stat2" /\ MoverStep /\ Size(src[Cur]) # initial_size)
            => (pc' = "ret" /\ ~result')
       /\ (pc = "verify" /\ MoverStep /\ src[Cur] # dst[Cur]) => pc' = "rm_dst"
       /\ (pc = "rm_dst" /\ MoverStep)
            => (pc' = "ret" /\ ~result' /\ UNCHANGED <<src, processed_files>>)
       /\ (pc = "ret" /\ ~result /\ MoverStep)
            => /\ pc' = "loop" /\ idx' = idx + 1
               /\ UNCHANGED <<mrc_files, processed_files>>]_vars

\* The copy of a listed file failed, the file is gone from the source
\* directory, nothing was recorded and the loop has a further name to go to.
C15_Witness ==
    /\ pc = "loop"
    /\ outcome = "CopyFailed"
    /\ ~Exists(src[Last])
    /\ ~Exists(dst[Last])
    /\ Last \notin processed_files
    /\ idx <= Len(mrc_files)

C17_ReadyIffSizesAgree ==
    [][/\ (pc = "stat1" /\ pc' = "stat2")
            => (Exists(src[Cur]) /\ initial_size' = Size(src[Cur]))
       /\ (pc = "stat2" /\ pc' \in {"copy", "move"})
            => (Exists(src[Cur]) /\ Size(src[Cur]) = initial_size)
       /\ (pc = "stat2" /\ Exists(src[Cur]) /\ Size(src[Cur]) = initial_size)
            => ENABLED (Stat2 /\ pc' # "ret")
       /\ (pc = "stat1" /\ MoverStep /\ ~Exists(src[Cur])) => pc' = "ret"
       /\ (/\ pc = "stat2"
           /\ MoverStep
           /\ ~Exists(src[Cur]) \/ Size(src[Cur]) # initial_size) => pc' = "ret"
       /\ (pc \in {"stat1", "stat2"} /\ MoverStep)
            => /\ pc' \in {"stat2", "copy", "move", "ret"}
               /\ pc' = "ret" => (outcome' = "NotReady" /\ ~result')]_vars

\* Between the two size reads the producer has changed the size of the file.
C17_Witness ==
    /\ pc = "stat2"
    /\ touched
    /\ IsFile(src[Cur])
    /\ Size(src[Cur]) # initial_size

\* C18: when a transfer returns without success because the file was not
\* ready, the copy failed or the verification failed, the destination
\* directory holds under the file's basename exactly what it held when the
\* transfer started: nothing if there was nothing, the same file with the same
\* content if there was one.
C18_FailureLeavesDestination ==
    (/\ pc = "ret"
     /\ outcome \in {"NotReady", "CopyFailed", "VerifyFailed", "RollbackFailed"})
        => dst[Cur] = dst0

\* C19: when a transfer has returned success and its name is about to be
\* added to the ledger (the producer not having touched the name meanwhile),
\* the destination directory holds a regular file under that name and the
\* source directory holds nothing under it.
C19_LedgerNameIsMoved ==
    (pc = "ret" /\ result /\ ~touched)
        => (IsFile(dst[Cur]) /\ ~Exists(src[Cur]))

\* The movers whose thread is in a scan cycle, and those inside move_file.
Scanning == {w \in 1..Len(movers) : movers[w].pc \in {"list", "loop", "transfer"}}
Transferring == {w \in 1..Len(movers) : movers[w].pc = "transfer"}

\* C20: whatever the clicks on Start/Stop, at most one mover thread is in a
\* scan cycle (listing, looping or transferring) at a time, and no two
\* movers are inside a transfer at the same time.
C20_OneWorkerAtATime ==
    /\ Cardinality(Scanning) <= 1
    /\ Cardinality(Transferring) <= 1

====
